---- MODULE Spec2Model ----
(***************************************************************************)
(* Model of the Docker code sandbox of src/main.py: the DockerSandbox      *)
(* manager (create_container, run_code, cleanup), the three tool handlers  *)
(* (initialize_sandbox, execute_code, stop_sandbox), the lifespan          *)
(* shutdown, and the container backend they drive.  Every handler is one   *)
(* action; the backend's answers are nondeterministic.                     *)
(***************************************************************************)
EXTENDS Integers, Sequences, FiniteSets, TLC

\* ------------------------------------------------------------------ bounds
\* containers the backend hands out over one run of the server
MaxEnvs == 2
\* pulls that may succeed inside one create_container call
MaxPulls == 2
\* largest exit code an exec reports
MaxExitCode == 2

\* ------------------------------------------------------------ input values
Images == {"alpine:latest", "python:3.12-alpine"}
Codes == {"print(1+1)", "import sys; sys.exit(3)"}
Languages == {"python", "javascript", "ruby", ""}
\* raw output of an exec, as a sequence of lines; "\\xff" is a line of bytes
\* that are not valid UTF-8
RawOutputs == {<< >>, <<"2">>, <<"\\xff">>}
\* what `find /usr -name 'python3*' -type f -executable` can print
FindOutputs == {<< >>, <<"/usr/bin/python3.12">>,
                <<"/usr/lib/python3.12/config/python3-config", "/usr/bin/python3.12">>}

\* ---------------------------------------------------------- Python values
\* self.container = None / self._container_id = None
NoContainer == 0
\* the attribute self._python_path before any assignment to it
NoAttr == "<no attribute>"
\* Optional values: << >> is None, <<x>> is x
Nothing == << >>
Some(x) == <<x>>

\* exception classes, with the subclass order of docker.errors
IsA(exc, cls) ==
    \/ exc = cls
    \/ cls = "Exception"
    \/ cls = "DockerException" /\ exc \in {"APIError", "NotFound", "ImageNotFound"}
    \/ cls = "APIError" /\ exc \in {"NotFound", "ImageNotFound"}
    \/ cls = "NotFound" /\ exc = "ImageNotFound"

\* bytes.decode('utf-8', errors='replace'), line by line
Decode(raw) == [i \in DOMAIN raw |-> IF raw[i] = "\\xff" THEN "U+FFFD" ELSE raw[i]]

\* ------------------------------------------------------------------ state
VARIABLES
    container,      \* self.container: NoContainer or the id of the container object
    _container_id,  \* self._container_id
    _python_path,   \* self._python_path
    image_of,       \* self.container.image: the image of the container object
    envs,           \* backend: id -> "running" | "exited" | "removed"
    verified,       \* history: the referenced container got through the version check
    serving,        \* the lifespan context is open
    pending,        \* the execute_code call suspended at its await of line 286, if any
    pre,            \* history: the status and the id as the last handler found them
    stops,          \* history: the stop_sandbox calls in a row up to now, counted up to 2
    op,             \* the last handler run and its arguments
    calls,          \* the backend calls that handler issued, in order
    result          \* what that handler returned

vars == <<container, _container_id, _python_path, image_of, envs, verified, serving,
          pending, pre, stops, op, calls, result>>

\* the manager's fields and the backend, threaded through a method
State(c, cid, p, img, e) ==
    [container |-> c, cid |-> cid, path |-> p, image |-> img, envs |-> e]
Cur == State(container, _container_id, _python_path, image_of, envs)

\* one backend call: what was asked, of which container, as whom, and the answer
\* (out is "ok", "exit", the status a reload reported, or the exception raised;
\* code is the exit code, -1 if there is none)
Call(name, env, cmd, user, workdir, out, code) ==
    [op |-> name, env |-> env, cmd |-> cmd, user |-> user, workdir |-> workdir,
     out |-> out, code |-> code, output |-> << >>]

\* an exec_run call, with the raw output it captured
ExecCall(env, cmd, user, workdir, x) ==
    [op |-> "Exec", env |-> env, cmd |-> cmd, user |-> user, workdir |-> workdir,
     out |-> x.out, code |-> x.code, output |-> x.output]

\* a method's outcome: the state it leaves, the calls it made, and either a
\* returned value (exc = "") or the exception it raised, with its message
Outcome(st, cs, exc, msg, val) ==
    [st |-> st, calls |-> cs, exc |-> exc, msg |-> msg, val |-> val]

\* the status the spec gives the manager (it is not a field of the code): no
\* container referenced, one that went through the bootstrap, or one that did not
status ==
    IF container = NoContainer THEN "absent"
    ELSE IF verified THEN "ready"
    ELSE "provisioning"

\* --------------------------------------------------------------- backend
\* container.stop(timeout=5)
BackendStop(e, id) ==
    IF e[id] = "removed"
    THEN {[envs |-> e, out |-> "NotFound"]}
    ELSE {[envs |-> [e EXCEPT ![id] = "exited"], out |-> "ok"],
          [envs |-> e, out |-> "APIError"],
          [envs |-> e, out |-> "Other"]}

\* container.remove(force=True)
BackendRemove(e, id) ==
    IF e[id] = "removed"
    THEN {[envs |-> e, out |-> "NotFound"]}
    ELSE {[envs |-> [e EXCEPT ![id] = "removed"], out |-> "ok"],
          [envs |-> e, out |-> "APIError"],
          [envs |-> e, out |-> "Other"]}

\* client.containers.run(image, ...): a new running container, or an error
BackendRun(e, image) ==
    {[envs |-> Append(e, "running"), id |-> Len(e) + 1, out |-> "ok"],
     [envs |-> e, id |-> NoContainer, out |-> "ImageNotFound"],
     [envs |-> e, id |-> NoContainer, out |-> "APIError"],
     [envs |-> e, id |-> NoContainer, out |-> "Other"]}

\* client.images.pull(image); ok tells whether the pull may still succeed
BackendPull(image, ok) ==
    (IF ok THEN {"ok"} ELSE {}) \cup {"ImageNotFound", "APIError", "Other"}

\* container.exec_run(cmd, ...): an exit code and raw output, or an error
BackendExec(e, id, codes, outputs) ==
    IF e[id] = "running"
    THEN {[out |-> "exit", code |-> c, output |-> r] : c \in codes, r \in outputs}
         \cup {[out |-> x, code |-> -1, output |-> << >>] : x \in {"APIError", "Other"}}
    ELSE {[out |-> IF e[id] = "removed" THEN "NotFound" ELSE "APIError",
           code |-> -1, output |-> << >>]}

\* container.reload(): the live status, or an error
BackendReload(e, id) ==
    IF e[id] = "removed"
    THEN {[out |-> "NotFound", status |-> ""]}
    ELSE {[out |-> "ok", status |-> e[id]],
          [out |-> "APIError", status |-> ""],
          [out |-> "Other", status |-> ""]}

\* container.start()
BackendStart(e, id) ==
    IF e[id] = "removed"
    THEN {[envs |-> e, out |-> "NotFound"]}
    ELSE {[envs |-> [e EXCEPT ![id] = "running"], out |-> "ok"],
          [envs |-> e, out |-> "APIError"],
          [envs |-> e, out |-> "Other"]}

\* ---------------------------------------------------------------- cleanup
\* the body of the try of cleanup: stop, and remove only when stop returned
CleanupTry(st) ==
    LET id == st.container IN
    UNION { IF s.out # "ok"
            THEN {[envs |-> s.envs, exc |-> s.out,
                   calls |-> <<Call("Stop", id, <<"timeout=5">>, "", "", s.out, -1)>>]}
            ELSE {[envs |-> r.envs, exc |-> IF r.out = "ok" THEN "" ELSE r.out,
                   calls |-> <<Call("Stop", id, <<"timeout=5">>, "", "", s.out, -1),
                               Call("Remove", id, <<"force=True">>, "", "", r.out, -1)>>]
                   : r \in BackendRemove(s.envs, id)}
          : s \in BackendStop(st.envs, id) }

\* a cleanup that clears the fields at the end of the try, not in a finally
CleanupNoFinally(st) ==
    { Outcome(IF t.exc = ""
              THEN State(NoContainer, NoContainer, st.path, "", t.envs)
              ELSE [st EXCEPT !.envs = t.envs],
              t.calls,
              IF t.exc # "" /\ ~IsA(t.exc, "APIError") THEN t.exc ELSE "",
              "", Nothing)
      : t \in CleanupTry(st) }

\* lines 197-209: NotFound and APIError are swallowed, anything else
\* propagates; the finally clause clears both fields on every path
CleanupFinally(st) ==
    { Outcome(State(NoContainer, NoContainer, st.path, "", t.envs), t.calls,
              IF t.exc # "" /\ ~IsA(t.exc, "APIError") THEN t.exc ELSE "",
              "", Nothing)
      : t \in CleanupTry(st) }

\* a cleanup without the test of self.container: stop is called on None
cleanup_unguarded(st) ==
    IF st.container # NoContainer
    THEN CleanupFinally(st)
    ELSE { Outcome(st, << >>, "Other", "", Nothing) }

\* DockerSandbox.cleanup
cleanup(st) ==
    IF st.container # NoContainer
    THEN CleanupFinally(st)
    ELSE { Outcome(st, << >>, "", "", Nothing) }

\* ------------------------------------------------------- create_container
\* exit codes of the bootstrap commands: the code only tells 0 from non-zero
BootCodes == {0, 1}

install_cmd == <<"sh", "-c", "apk update && apk add --no-cache python3 py3-pip && ln -sf /usr/bin/python3 /usr/bin/python">>
debug_cmd == <<"sh", "-c", "echo PATH=$PATH && ls -la /usr/bin/python* && ls -la /usr/local/bin/python*">>
find_cmd == <<"find", "/usr", "-name", "python3*", "-type", "f", "-executable">>
startup_cmd == <<"sh", "-c", "echo \"Wake up neo\"">>
potential_python_paths ==
    <<"/usr/bin/python3", "/usr/bin/python", "/usr/local/bin/python3", "/usr/local/bin/python">>

\* an exec of the bootstrap, as the default identity unless one is given
BootCall(st, cmd, user, workdir, x) ==
    ExecCall(st.container, cmd, user, workdir, x)

\* lines 113-124: the startup command as nobody in /tmp; its exit code is not
\* looked at, an exception leaves the try
Startup(st, cs) ==
    { LET cs2 == Append(cs, BootCall(st, startup_cmd, "nobody", "/tmp", x)) IN
      IF x.out = "exit"
      THEN Outcome(st, cs2, "", "", Some(st.cid))
      ELSE Outcome(st, cs2, x.out, "", Nothing)
      : x \in BackendExec(st.envs, st.container, BootCodes, {<<"Wake up neo">>}) }

\* lines 99-111: the version check of the path found, then the path is stored
Version(st, cs, python_path) ==
    UNION { LET cs2 == Append(cs, BootCall(st, <<python_path, "--version">>, "", "", x)) IN
            IF x.out # "exit" THEN {Outcome(st, cs2, x.out, "", Nothing)}
            ELSE IF x.code # 0
            THEN {Outcome(st, cs2, "Exception", "Failed to execute Python after installation", Nothing)}
            ELSE Startup([st EXCEPT !.path = python_path], cs2)
          : x \in BackendExec(st.envs, st.container, BootCodes, {<<"Python 3.12.3">>}) }

\* a search with find that takes the last line printed
FindLastLine(st, cs) ==
    UNION { LET cs2 == Append(cs, BootCall(st, find_cmd, "", "", x))
                find_output == Decode(x.output) IN
            IF x.out # "exit" THEN {Outcome(st, cs2, x.out, "", Nothing)}
            ELSE IF find_output # << >>
            THEN Version(st, cs2, find_output[Len(find_output)])
            ELSE {Outcome(st, cs2, "Exception", "Python executable not found after installation. Check container environment.", Nothing)}
          : x \in BackendExec(st.envs, st.container, BootCodes, FindOutputs) }

\* lines 87-97: the search with find; the first line printed is the path
Find(st, cs) ==
    UNION { LET cs2 == Append(cs, BootCall(st, find_cmd, "", "", x))
                find_output == Decode(x.output) IN
            IF x.out # "exit" THEN {Outcome(st, cs2, x.out, "", Nothing)}
            ELSE IF find_output # << >>
            THEN Version(st, cs2, find_output[1])
            ELSE {Outcome(st, cs2, "Exception", "Python executable not found after installation. Check container environment.", Nothing)}
          : x \in BackendExec(st.envs, st.container, BootCodes, FindOutputs) }

\* lines 78-85: `test -x path` on the paths from the i-th on, the first that
\* exits 0 is taken
RECURSIVE Probe(_, _, _)
Probe(st, cs, i) ==
    IF i > Len(potential_python_paths) THEN Find(st, cs)
    ELSE LET path == potential_python_paths[i] IN
         UNION { LET cs2 == Append(cs, BootCall(st, <<"test", "-x", path>>, "", "", x)) IN
                 IF x.out # "exit" THEN {Outcome(st, cs2, x.out, "", Nothing)}
                 ELSE IF x.code = 0 THEN Version(st, cs2, path)
                 ELSE Probe(st, cs2, i + 1)
               : x \in BackendExec(st.envs, st.container, BootCodes, {<< >>}) }

\* lines 59-64: the debug listing; only an exception matters
Debug(st, cs) ==
    UNION { LET cs2 == Append(cs, BootCall(st, debug_cmd, "", "", x)) IN
            IF x.out # "exit" THEN {Outcome(st, cs2, x.out, "", Nothing)}
            ELSE Probe(st, cs2, 1)
          : x \in BackendExec(st.envs, st.container, {0}, {<<"PATH=/usr/bin">>}) }

\* lines 48-57: the install command; a non-zero exit raises
InstallPython(st, cs) ==
    UNION { LET cs2 == Append(cs, BootCall(st, install_cmd, "", "", x)) IN
            IF x.out # "exit" THEN {Outcome(st, cs2, x.out, "", Nothing)}
            ELSE IF x.code # 0
            THEN {Outcome(st, cs2, "Exception", "Failed to install Python", Nothing)}
            ELSE Debug(st, cs2)
          : x \in BackendExec(st.envs, st.container, BootCodes, {<<"OK: 55 MiB in 38 packages">>}) }

\* lines 28-124: the try body: run the container, keep it in the two fields,
\* bootstrap it
CreateTry(st, image) ==
    UNION { LET c == Call("Create", r.id, <<image>>, "", "", r.out, -1) IN
            IF r.out # "ok" THEN {Outcome(st, <<c>>, r.out, "", Nothing)}
            ELSE InstallPython(State(r.id, r.id, st.path, image, r.envs), <<c>>)
          : r \in BackendRun(st.envs, image) }

\* a reuse test that also wants the image to be the one asked for
ReuseSameImage(st, image) == st.container # NoContainer /\ st.image = image

\* line 23: an existing container is reused, whatever the image asked for
Reuse(st, image) == st.container # NoContainer

\* create_container, with `pulled` pulls done by the calls around this one.
\* The handlers of the try: ImageNotFound pulls and calls create_container
\* again; APIError is wrapped in a DockerException; the rest is re-raised
RECURSIVE create_container(_, _, _)
create_container(st, image, pulled) ==
    IF Reuse(st, image)
    THEN {Outcome(st, << >>, "", "", Some(st.cid))}
    ELSE UNION {
        IF o.exc = "" THEN {o}
        ELSE IF IsA(o.exc, "ImageNotFound")
        THEN UNION {
               LET cs2 == Append(o.calls, Call("Pull", NoContainer, <<image>>, "", "", p, -1)) IN
               IF p = "ok"
               THEN { IF IsA(n.exc, "APIError")
                      THEN Outcome(n.st, cs2 \o n.calls, "DockerException", "Failed to pull image", Nothing)
                      ELSE [n EXCEPT !.calls = cs2 \o n.calls]
                      : n \in create_container(o.st, image, pulled + 1) }
               ELSE IF IsA(p, "APIError")
               THEN {Outcome(o.st, cs2, "DockerException", "Failed to pull image", Nothing)}
               ELSE {Outcome(o.st, cs2, p, "", Nothing)}
             : p \in BackendPull(image, pulled < MaxPulls) }
        ELSE IF IsA(o.exc, "APIError")
        THEN {Outcome(o.st, o.calls, "DockerException", "Failed to create container", Nothing)}
        ELSE {o}
      : o \in CreateTry(st, image) }

\* ---------------------------------------------------------------- run_code
\* the dict run_code returns: each key is present (<<x>>) or not (<< >>)
Dict(error, exit_code, output) == [error |-> error, exit_code |-> exit_code, output |-> output]

\* lines 148-155: the command for a language, << >> when there is none
Command(code, language) ==
    IF language = "python" THEN <<"python3", "-c", code>> ELSE << >>

\* a dict that keeps the output only of a successful run
ExecDictDropsOutput(x) ==
    LET output == IF x.output # << >> THEN Decode(x.output) ELSE << >>
        exit_code == x.code IN
    IF exit_code # 0
    THEN Dict(Some("Execution failed with exit code " \o ToString(exit_code)),
              Some(exit_code), Nothing)
    ELSE Dict(Nothing, Some(exit_code), Some(output))

\* lines 174-184: the dict for a finished exec
ExecDict(x) ==
    LET output == IF x.output # << >> THEN Decode(x.output) ELSE << >>
        exit_code == x.code IN
    IF exit_code # 0
    THEN Dict(Some("Execution failed with exit code " \o ToString(exit_code)),
              Some(exit_code), Some(output))
    ELSE Dict(Nothing, Some(exit_code), Some(output))

\* lines 186-191: the dict for an exception of the try
ErrorDict(exc) ==
    IF IsA(exc, "APIError")
    THEN Dict(Some("API error during execution"), Nothing, Nothing)
    ELSE Dict(Some("Unexpected error"), Nothing, Nothing)

\* an exec of the code as the default identity of the container
RunExecAsDefault(st, cs, cmd) ==
    { LET cs2 == Append(cs, ExecCall(st.container, cmd, "", "", x)) IN
      Outcome(st, cs2, "", "", IF x.out = "exit" THEN ExecDict(x) ELSE ErrorDict(x.out))
      : x \in BackendExec(st.envs, st.container, 0..MaxExitCode, RawOutputs) }

\* lines 168-172: the exec as nobody in /tmp
RunExec(st, cs, cmd) ==
    { LET cs2 == Append(cs, ExecCall(st.container, cmd, "nobody", "/tmp", x)) IN
      Outcome(st, cs2, "", "", IF x.out = "exit" THEN ExecDict(x) ELSE ErrorDict(x.out))
      : x \in BackendExec(st.envs, st.container, 0..MaxExitCode, RawOutputs) }

\* a start that is tried a second time when it fails
RunStartRetry(st, cs, cmd) ==
    UNION { LET cs2 == Append(cs, Call("Start", st.container, << >>, "", "", s.out, -1)) IN
            IF s.out = "ok" THEN RunExec([st EXCEPT !.envs = s.envs], cs2, cmd)
            ELSE UNION { LET cs3 == Append(cs2, Call("Start", st.container, << >>, "", "", s2.out, -1)) IN
                         IF s2.out = "ok" THEN RunExec([st EXCEPT !.envs = s2.envs], cs3, cmd)
                         ELSE {Outcome(st, cs3, "", "", ErrorDict(s2.out))}
                       : s2 \in BackendStart(st.envs, st.container) }
          : s \in BackendStart(st.envs, st.container) }

\* lines 161-163: start the container when reload found it not running
RunStart(st, cs, cmd) ==
    UNION { LET cs2 == Append(cs, Call("Start", st.container, << >>, "", "", s.out, -1)) IN
            IF s.out = "ok" THEN RunExec([st EXCEPT !.envs = s.envs], cs2, cmd)
            ELSE {Outcome(st, cs2, "", "", ErrorDict(s.out))}
          : s \in BackendStart(st.envs, st.container) }

\* lines 158-191: reload, start if needed, exec; every exception becomes a dict
RunTry(st, cmd) ==
    UNION { LET cs == <<Call("Reload", st.container, << >>, "", "",
                                 IF r.out = "ok" THEN r.status ELSE r.out, -1)>> IN
            IF r.out # "ok" THEN {Outcome(st, cs, "", "", ErrorDict(r.out))}
            ELSE IF r.status # "running" THEN RunStart(st, cs, cmd)
            ELSE RunExec(st, cs, cmd)
          : r \in BackendReload(st.envs, st.container) }

\* DockerSandbox.run_code
run_code(st, code, language) ==
    IF st.container = NoContainer
    THEN {Outcome(st, << >>, "", "",
                  Dict(Some("Container not initialized. Call 'initialize_sandbox' first."), Nothing, Nothing))}
    ELSE IF language = "python" THEN RunTry(st, Command(code, language))
    ELSE IF language = "javascript"
    THEN {Outcome(st, << >>, "", "",
                  Dict(Some("JavaScript execution not supported in minimal container"), Nothing, Nothing))}
    ELSE {Outcome(st, << >>, "", "",
                  Dict(Some("Unsupported language: " \o language), Nothing, Nothing))}

\* ------------------------------------------------------------ the results
Result(st, et, msg, cid, ec, outp) ==
    [status |-> st, error_type |-> et, message |-> msg,
     container_id |-> cid, exit_code |-> ec, output |-> outp]

NoResult == Result("", "", "", Nothing, Nothing, Nothing)

\* stop_sandbox: what it returns for an outcome of cleanup
StopResult(o) ==
    IF o.exc = ""
    THEN Result("success", "", "Sandbox stopped and removed.", Nothing, Nothing, Nothing)
    ELSE Result("error", "CleanupError", "An error occurred during cleanup", Nothing, Nothing, Nothing)

\* initialize_sandbox: what it returns for an outcome of create_container
InitializeResult(o) ==
    IF o.exc = ""
    THEN Result("success", "", "", o.val, Nothing, Nothing)
    ELSE IF IsA(o.exc, "DockerException")
    THEN Result("error", "DockerException", o.msg, Nothing, Nothing, Nothing)
    ELSE Result("error", "UnexpectedError", "An unexpected error occurred", Nothing, Nothing, Nothing)

\* execute_code, lines 289-304: what it returns for the dict of run_code
ExecuteResult(d) ==
    IF d.error # Nothing
    THEN Result("error", "ExecutionError", d.error[1], Nothing, d.exit_code, d.output)
    ELSE Result("success", "", "", Nothing, d.exit_code, d.output)

\* execute_code, lines 282-284: the refusal when no container is referenced
StateErrorResult ==
    Result("error", "StateError", "Sandbox not initialized. Call 'initialize_sandbox' first.",
           Nothing, Nothing, Nothing)

\* the calls of a create_container that got as far as storing the path: the
\* version check exited 0
Recorded(cs) ==
    \E i \in DOMAIN cs : /\ cs[i].op = "Exec"
                         /\ Len(cs[i].cmd) = 2
                         /\ cs[i].cmd[2] = "--version"
                         /\ cs[i].code = 0

\* what a handler finds when it starts
Found == [status |-> status, cid |-> _container_id]

\* the fields and the backend after a method has run
Becomes(st) ==
    /\ container' = st.container
    /\ _container_id' = st.cid
    /\ _python_path' = st.path
    /\ image_of' = st.image
    /\ envs' = st.envs

\* ---------------------------------------------------------------- actions
Init ==
    /\ container = NoContainer
    /\ _container_id = NoContainer
    /\ _python_path = NoAttr
    /\ image_of = ""
    /\ envs = << >>
    /\ verified = FALSE
    /\ pre = [status |-> "absent", cid |-> NoContainer]
    /\ stops = 0
    /\ serving = TRUE
    /\ pending = Nothing
    /\ op = [name |-> "start", image |-> "", code |-> "", language |-> ""]
    /\ calls = << >>
    /\ result = NoResult

\* the tool stop_sandbox
stop_sandbox ==
    /\ serving
    /\ UNCHANGED pending
    /\ pre' = Found
    /\ stops' = IF stops < 2 THEN stops + 1 ELSE 2
    /\ \E o \in cleanup(Cur) :
         /\ Becomes(o.st)
         /\ calls' = o.calls
         /\ result' = StopResult(o)
    /\ op' = [name |-> "Stop", image |-> "", code |-> "", language |-> ""]
    /\ verified' = FALSE
    /\ UNCHANGED serving

\* the tool initialize_sandbox
initialize_sandbox ==
    /\ serving
    /\ UNCHANGED pending
    /\ pre' = Found
    /\ stops' = 0
    /\ container # NoContainer \/ Len(envs) < MaxEnvs
    /\ \E image \in Images :
         /\ \E o \in create_container(Cur, image, 0) :
              /\ Becomes(o.st)
              /\ calls' = o.calls
              /\ result' = InitializeResult(o)
              /\ verified' = (verified \/ Recorded(o.calls))
         /\ op' = [name |-> "Initialize", image |-> image, code |-> "", language |-> ""]
    /\ UNCHANGED serving

\* the tool execute_code
execute_code ==
    /\ serving
    /\ UNCHANGED pending
    /\ pre' = Found
    /\ stops' = 0
    /\ \E code \in Codes, language \in Languages :
         /\ IF container = NoContainer
            THEN /\ calls' = << >>
                 /\ result' = StateErrorResult
                 /\ UNCHANGED <<container, _container_id, _python_path, image_of, envs>>
            ELSE \E o \in run_code(Cur, code, language) :
                   /\ Becomes(o.st)
                   /\ calls' = o.calls
                   /\ result' = ExecuteResult(o.val)
         /\ op' = [name |-> "Execute", image |-> "", code |-> code, language |-> language]
    /\ UNCHANGED <<serving, verified>>

\* sandbox_lifespan: the server shuts down and the sandbox is cleaned up
sandbox_lifespan ==
    /\ serving
    /\ UNCHANGED pending
    /\ pre' = Found
    /\ stops' = 0
    /\ serving' = FALSE
    /\ \E o \in cleanup(Cur) :
         /\ Becomes(o.st)
         /\ calls' = o.calls
    /\ result' = NoResult
    /\ op' = [name |-> "Shutdown", image |-> "", code |-> "", language |-> ""]
    /\ verified' = FALSE

\* the backend on its own: a container dies, or is removed, out of band
ExternalKill ==
    /\ serving
    /\ UNCHANGED pending
    /\ \E id \in DOMAIN envs :
         /\ envs[id] = "running"
         /\ envs' = [envs EXCEPT ![id] = "exited"]
    /\ UNCHANGED <<container, _container_id, _python_path, image_of, verified, serving, pre, stops, op, calls, result>>

ExternalRemove ==
    /\ serving
    /\ UNCHANGED pending
    /\ \E id \in DOMAIN envs :
         /\ envs[id] # "removed"
         /\ envs' = [envs EXCEPT ![id] = "removed"]
    /\ UNCHANGED <<container, _container_id, _python_path, image_of, verified, serving, pre, stops, op, calls, result>>

Next ==
    \/ initialize_sandbox
    \/ execute_code
    \/ stop_sandbox
    \/ sandbox_lifespan
    \/ ExternalKill
    \/ ExternalRemove

Spec == Init /\ [][Next]_vars

\* ------------------------------------------- handlers that overlap in time
\* The tools are coroutines on one event loop: a handler runs alone between
\* two awaits and another handler may run while it is suspended at one.
\* stop_sandbox and initialize_sandbox call the manager between their awaits,
\* so each is still one step; execute_code tests sandbox.container before its
\* await of line 286 and calls run_code after it.

\* execute_code, lines 281-286: the test of sandbox.container, then the await
execute_code_check ==
    /\ serving
    /\ pending = Nothing
    /\ \E code \in Codes, language \in Languages :
         IF container = NoContainer
         THEN /\ calls' = << >>
              /\ result' = StateErrorResult
              /\ op' = [name |-> "Execute", image |-> "", code |-> code, language |-> language]
              /\ pre' = Found
              /\ stops' = 0
              /\ UNCHANGED pending
         ELSE /\ pending' = Some([code |-> code, language |-> language])
              /\ UNCHANGED <<pre, stops, op, calls, result>>
    /\ UNCHANGED <<container, _container_id, _python_path, image_of, envs, verified, serving>>

\* execute_code, lines 287-304: run_code on whatever the sandbox is by now
execute_code_dispatch ==
    /\ serving
    /\ pending # Nothing
    /\ \E o \in run_code(Cur, pending[1].code, pending[1].language) :
         /\ Becomes(o.st)
         /\ calls' = o.calls
         /\ result' = ExecuteResult(o.val)
    /\ op' = [name |-> "Execute", image |-> "", code |-> pending[1].code,
              language |-> pending[1].language]
    /\ pre' = Found
    /\ stops' = 0
    /\ pending' = Nothing
    /\ UNCHANGED <<serving, verified>>

NextConc ==
    \/ initialize_sandbox
    \/ execute_code_check
    \/ execute_code_dispatch
    \/ stop_sandbox

SpecConc == Init /\ [][NextConc]_vars
\* ================================================================= claims
\* the positions in the calls of the last handler of the calls named `name`
CallsOf(name) == {i \in DOMAIN calls : calls[i].op = name}

\* C1: an Initialize that fails (in creation or in a bootstrap step) leaves
\* no environment referenced: status is absent and no environmentID is kept.
C1_FailedInitializeReferencesNothing ==
    (op.name = "Initialize" /\ result.status = "error")
        => /\ status = "absent"
           /\ container = NoContainer
           /\ _container_id = NoContainer

\* C2: one Initialize call issues at most one PullImage and at most two
\* CreateEnvironment calls; a second not-found is fatal, no second pull.
C2_OnePullOneRetry ==
    op.name = "Initialize"
        => /\ Cardinality(CallsOf("Pull")) <= 1
           /\ Cardinality(CallsOf("Create")) <= 2

\* C3: a Stop called while an environment is referenced issues the graceful
\* backend Stop and then the force Remove, whatever the graceful Stop did.
C3_StopThenRemoveAlways ==
    (op.name = "Stop" /\ pre.cid # NoContainer)
        => /\ Len(calls) = 2
           /\ calls[1].op = "Stop"
           /\ calls[2].op = "Remove"

\* C4: after every Stop call, whatever the backend Stop and Remove did, no
\* environment is referenced: status is absent and the environmentID is cleared.
C4_StopAlwaysClears ==
    op.name = "Stop"
        => /\ status = "absent"
           /\ container = NoContainer
           /\ _container_id = NoContainer

\* C4 witness: a Stop whose backend call failed has run
C4_Witness ==
    /\ op.name = "Stop"
    /\ \E i \in DOMAIN calls : calls[i].out \in {"APIError", "Other"}
    /\ container = NoContainer

\* C5: whenever the environment is not ready, Execute returns a StateError
\* result and issues no Exec call to the backend.
C5_NotReadyRefused ==
    (op.name = "Execute" /\ pre.status # "ready")
        => /\ result.status = "error"
           /\ result.error_type = "StateError"
           /\ CallsOf("Exec") = {}

\* C6: Initialize on a ready environment returns the existing environmentID
\* unchanged and issues no backend call, for any image argument.
C6_InitializeReuses ==
    (op.name = "Initialize" /\ pre.status = "ready")
        => /\ calls = << >>
           /\ result.status = "success"
           /\ result.container_id = Some(pre.cid)
           /\ _container_id = pre.cid
           /\ container = pre.cid
           /\ status = "ready"

\* C6 witness: Initialize has run on a ready environment made from another image
C6_Witness ==
    /\ op.name = "Initialize"
    /\ pre.status = "ready"
    /\ op.image # image_of
    /\ calls = << >>
    /\ result.container_id = Some(_container_id)

\* C7: Stop with no environment referenced succeeds without any backend
\* call, and a Stop that follows a Stop returns success, whatever the first did.
C7_StopIdempotent ==
    (op.name = "Stop" /\ (pre.cid = NoContainer \/ stops = 2))
        => /\ calls = << >>
           /\ result.status = "success"

\* C7 witness: a second Stop in a row has run
C7_Witness ==
    /\ op.name = "Stop"
    /\ stops = 2
    /\ calls = << >>
    /\ result.status = "success"
    /\ envs # << >>

\* C8: an Execute whose reload reports the environment not running issues
\* exactly one Start, second, and only then the Exec; a failed Start is not
\* retried, no Exec follows it and an error result is returned; when the
\* reload reports running, no Start is issued.
C8_SelfHealing ==
    (op.name = "Execute" /\ calls # << >>)
        => /\ calls[1].op = "Reload"
           /\ CallsOf("Exec") \subseteq {Len(calls)}
           /\ calls[1].out = "running" => CallsOf("Start") = {}
           /\ calls[1].out = "exited"
                => /\ CallsOf("Start") = {2}
                   /\ calls[2].out = "ok" => (Len(calls) = 3 /\ calls[3].op = "Exec")
                   /\ calls[2].out # "ok"
                        => /\ Len(calls) = 2
                           /\ result.status = "error"
                           /\ result.message # ""

\* C8 witness: an Execute on a ready environment found stopped, restarted, run
C8_Witness ==
    /\ op.name = "Execute"
    /\ status = "ready"
    /\ Len(calls) = 3
    /\ calls[1].out = "exited"
    /\ calls[2].op = "Start" /\ calls[2].out = "ok"
    /\ calls[3].op = "Exec" /\ calls[3].out = "exit"
    /\ result.status = "success"

\* C9: for python, the command Execute dispatches is the interpreter path
\* the bootstrap recorded, the inline-code flag and the code.
C9_DispatchesRecordedInterpreter ==
    (op.name = "Execute" /\ op.language = "python" /\ status = "ready")
        => \A i \in CallsOf("Exec") : calls[i].cmd = <<_python_path, "-c", op.code>>

\* C10: for a language other than python, Execute on a ready environment
\* returns an error result of kind UnsupportedLanguage and issues no backend call.
C10_UnsupportedLanguageKind ==
    (op.name = "Execute" /\ op.language \notin {"python", ""} /\ status = "ready")
        => /\ result.status = "error"
           /\ result.error_type = "UnsupportedLanguage"
           /\ calls = << >>
\* the error kind execute_code gives to code that ran and exited non-zero
NonZeroExitKinds ==
    {ExecuteResult(ExecDict([out |-> "exit", code |-> c, output |-> r])).error_type
       : c \in 1..MaxExitCode, r \in RawOutputs}

\* C11: when a backend call of Execute itself fails (Reload, Start or Exec
\* raises), the error kind of the result differs from the kind given to code
\* that ran and exited non-zero.
C11_BackendFailureDistinctKind ==
    (op.name = "Execute" /\ \E i \in DOMAIN calls : calls[i].out \in {"APIError", "NotFound", "Other"})
        => /\ result.status = "error"
           /\ result.error_type \notin NonZeroExitKinds

\* C12: for every exit code the backend Exec returns, Execute returns a
\* result: exit code 0 gives success with that code and the captured output,
\* a non-zero code gives an ExecutionError result with that code and the output.
C12_ResultNormalization ==
    (op.name = "Execute" /\ calls # << >> /\ calls[Len(calls)].op = "Exec"
                         /\ calls[Len(calls)].out = "exit")
        => LET c == calls[Len(calls)] IN
           /\ result.exit_code = Some(c.code)
           /\ result.output = Some(Decode(c.output))
           /\ c.code = 0 => (result.status = "success" /\ result.error_type = "")
           /\ c.code # 0 => (result.status = "error" /\ result.error_type = "ExecutionError")

\* C12 witness: code that wrote output and exited non-zero has been run
C12_Witness ==
    /\ op.name = "Execute"
    /\ calls # << >>
    /\ calls[Len(calls)].out = "exit"
    /\ calls[Len(calls)].code = MaxExitCode
    /\ calls[Len(calls)].output = <<"2">>
    /\ result.output = Some(<<"2">>)
    /\ result.exit_code = Some(MaxExitCode)
\* C13: in every reachable state the resolved interpreter path is set if and
\* only if the status is ready; it is unset after Stop and after a failed
\* Initialize.
C13_PathSetIffReady ==
    (_python_path # NoAttr) <=> (status = "ready")

\* C14: a backend API failure during creation, exec or stop makes the result
\* of the operation in which it occurred an error result, never a success,
\* also when the backend Stop or Remove fails during Stop.
C14_ApiFailureSurfaced ==
    (op.name \in {"Initialize", "Execute", "Stop"}
       /\ \E i \in DOMAIN calls : calls[i].out = "APIError")
        => result.status = "error"

\* the bootstrap commands that run as the default, privileged identity
PrivilegedCommands ==
    {install_cmd, debug_cmd, find_cmd}
      \cup {<<"test", "-x", potential_python_paths[i]>> : i \in DOMAIN potential_python_paths}
      \cup {<<calls[i].cmd[1], "--version">> : i \in {j \in DOMAIN calls : Len(calls[j].cmd) = 2}}

\* C15: every Exec issued by Execute runs as the restricted identity in the
\* confined working directory; the default identity is used only by the
\* install, discovery and verification Execs of Initialize.
C15_ExecuteRestrictedIdentity ==
    \A i \in CallsOf("Exec") :
        /\ op.name = "Execute" => (calls[i].user = "nobody" /\ calls[i].workdir = "/tmp")
        /\ calls[i].user # "nobody"
             => (op.name = "Initialize" /\ calls[i].cmd \in PrivilegedCommands)

\* C15 witness: an Execute has dispatched code, after a bootstrap that ran
\* its commands as the default identity
C15_Witness ==
    /\ op.name = "Execute"
    /\ status = "ready"
    /\ \E i \in CallsOf("Exec") :
         /\ calls[i].cmd = <<"python3", "-c", op.code>>
         /\ calls[i].user = "nobody"
         /\ calls[i].workdir = "/tmp"
         /\ calls[i].out = "exit"
\* the positions of the bootstrap execs in the calls of the last handler
ProbeCalls == {i \in CallsOf("Exec") : calls[i].cmd[1] = "test"}
FindCalls == {i \in CallsOf("Exec") : calls[i].cmd = find_cmd}
VersionCalls == {i \in CallsOf("Exec") : Len(calls[i].cmd) = 2 /\ calls[i].cmd[2] = "--version"}
Exited(i, codes) == calls[i].out = "exit" /\ calls[i].code \in codes
Failed(i) == calls[i].out = "exit" /\ calls[i].code # 0

\* the calls show install exit 0, then a discovery that yielded a path, then
\* the version check of that path exit 0
BootstrapInOrder ==
    \E i, j, k \in CallsOf("Exec") :
        /\ i < j /\ j < k
        /\ calls[i].cmd = install_cmd /\ Exited(i, {0})
        /\ \/ j \in ProbeCalls /\ Exited(j, {0}) /\ calls[k].cmd[1] = calls[j].cmd[3]
           \/ j \in FindCalls /\ calls[j].output # << >>
                /\ calls[k].cmd[1] = Decode(calls[j].output)[1]
        /\ k \in VersionCalls /\ Exited(k, {0})

\* C16: Initialize returns an environmentID as success only for an
\* environment in which install exited 0, then discovery yielded a path, then
\* the version check of that path exited 0; an environment that failed or
\* skipped a step is never returned by a later Initialize.
C16_SuccessOnlyAfterBootstrap ==
    (op.name = "Initialize" /\ result.status = "success")
        => /\ status = "ready"
           /\ calls # << >> => BootstrapInOrder

\* C17: discovery probes the fixed list in order and takes the first path
\* whose probe succeeds, probing none after it; the find fallback runs only
\* when all four probes failed, its first line is the path, and an empty
\* result fails the attempt.
C17_FirstMatchWins ==
    op.name = "Initialize"
        => /\ \A i \in ProbeCalls :
                LET k == Cardinality({j \in ProbeCalls : j <= i}) IN
                /\ k <= Len(potential_python_paths)
                /\ calls[i].cmd = <<"test", "-x", potential_python_paths[k]>>
                /\ \A j \in ProbeCalls : j < i => Failed(j)
                /\ Exited(i, {0})
                     => /\ \A j \in ProbeCalls \cup FindCalls : j <= i
                        /\ i + 1 \in VersionCalls
                        /\ calls[i + 1].cmd[1] = potential_python_paths[k]
           /\ \A f \in FindCalls :
                /\ Cardinality(ProbeCalls) = Len(potential_python_paths)
                /\ \A j \in ProbeCalls : j < f /\ Failed(j)
                /\ (calls[f].out = "exit" /\ calls[f].output # << >>)
                     => /\ f + 1 \in VersionCalls
                        /\ calls[f + 1].cmd[1] = Decode(calls[f].output)[1]
                /\ (calls[f].out = "exit" /\ calls[f].output = << >>)
                     => /\ f = Len(calls)
                        /\ result.status = "error"
           /\ \A v \in VersionCalls : Exited(v, {0}) => _python_path = calls[v].cmd[1]

\* C17 witness: no listed path was there, find printed two lines, the first
\* was verified and recorded
C17_Witness ==
    /\ op.name = "Initialize"
    /\ result.status = "success"
    /\ \E f \in FindCalls :
         /\ Len(calls[f].output) = 2
         /\ _python_path = calls[f].output[1]
         /\ _python_path # calls[f].output[2]

\* C18: a failure of the startup command at the end of the bootstrap, a
\* non-zero exit or a backend error when issuing it, is not fatal: Initialize
\* returns the environmentID as success and the environment stays ready.
C18_StartupFailureNotFatal ==
    (op.name = "Initialize"
       /\ \E i \in CallsOf("Exec") : calls[i].cmd = startup_cmd /\ ~Exited(i, {0}))
        => /\ result.status = "success"
           /\ result.container_id = Some(_container_id)
           /\ status = "ready"

\* C19: every environment the manager created and that is not removed is
\* the one it references now (so there is at most one).
C19_NoOrphans ==
    \A id \in DOMAIN envs : envs[id] # "removed" => id = container
\* C20: when execute_code and stop_sandbox interleave at their awaits, an
\* execute_code that reaches its dispatch with no environment referenced
\* returns error_type StateError, as one called with no environment does.
C20_LateDispatchIsStateError ==
    (op.name = "Execute" /\ pre.cid = NoContainer)
        => /\ result.status = "error"
           /\ result.error_type = "StateError"
====
